---- MODULE Spec2Model ----
(***************************************************************************)
(* SF Express HK integration: the refresh coordinator                      *)
(* (sensor.py: SFExpressCoordinator), its pickup-code cache, the sensor    *)
(* projections, and the setup / options flows (config_flow.py).            *)
(*                                                                         *)
(* One refresh cycle is a coroutine; every HTTP call is a suspension       *)
(* point, so the cycle is modelled as one action per resumption: the code  *)
(* that runs between two awaits is one atomic step.                        *)
(***************************************************************************)
EXTENDS Integers, Sequences, FiniteSets, TLC

(***************************************************************************)
(* Bounds of the model.                                                    *)
(***************************************************************************)
NumWaybills == 2      \* waybill numbers the upstream may list
MaxEvents == 2        \* route events in one route response, all waybills together

(***************************************************************************)
(* Python values.                                                          *)
(***************************************************************************)
None == "None"              \* Python None / JSON null
Absent == "absent"          \* a key that is not in the dict
PY_TRUE == "bool:True"      \* JSON true
PY_FALSE == "bool:False"    \* JSON false
STR_TRUE == "str:true"      \* the JSON string "true"
STR_FALSE == "str:false"    \* the JSON string "false"
EMPTY_STR == ""

SuccessFlags == {PY_TRUE, PY_FALSE, STR_TRUE, STR_FALSE, Absent}

\* Python truthiness of the values above.
Truthy(v) == v \notin {None, PY_FALSE, EMPTY_STR}

\* dict.get(key, default) on a value that is Absent when the key is missing.
Get(v, default) == IF v = Absent THEN default ELSE v

HTTP_OK == 200

(***************************************************************************)
(* Upstream data.                                                          *)
(***************************************************************************)
WaybillNo == 1..NumWaybills
DELIVERED == "4"
WaybillStatus == {"2", DELIVERED}
AWAITING_PICKUP == "125"
OpCode == {AWAITING_PICKUP, "50"}
\* (scanDate, scanTime) pairs: chosen so that date order and time order disagree.
ScanStamp == {<<1, 2>>, <<2, 1>>}
Event == {[scanDate |-> st[1], scanTime |-> st[2], opCode |-> op] :
            st \in ScanStamp, op \in OpCode}
PickupCodes == {"c1", "c2"}

\* A waybill dict of the list response; "routes" and "pickupCode" are the keys
\* the coordinator adds.
NewWaybill(w, s) ==
    [waybillno |-> w, waybillStatus |-> s, hasRoutes |-> FALSE,
     routes |-> <<>>, pickupCode |-> Absent]

RECURSIVE BuildDataList(_, _)
BuildDataList(f, n) ==
    IF n = 0 THEN <<>>
    ELSE LET rest == BuildDataList(f, n - 1)
         IN  IF f[n] = Absent THEN rest ELSE Append(rest, NewWaybill(n, f[n]))

\* The dataList values a list response may carry: any subset of the waybills,
\* each with a status.
DataLists ==
    {BuildDataList(f, NumWaybills) : f \in [WaybillNo -> WaybillStatus \cup {Absent}]}

RouteListsUpTo(n) ==
    UNION {{l \in [1..k -> Event] :
              \A i, j \in 1..k : i # j =>
                  <<l[i].scanDate, l[i].scanTime>> # <<l[j].scanDate, l[j].scanTime>>} :
           k \in 0..n}

\* The "obj" values a route response may carry for the request `req`: entries for
\* some of the requested waybills, in request order; an entry that is not
\* wellFormed lacks a key the loop subscripts ("waybillNo", "scanDate"). No two
\* events of one waybill carry the same scan date and time.
RECURSIVE RouteObjs(_, _)
RouteObjs(req, budget) ==
    IF req = <<>> THEN {<<>>}
    ELSE LET w == Head(req)
             skip == RouteObjs(Tail(req), budget)
             bad == {<<[waybillNo |-> w, barNewList |-> <<>>, wellFormed |-> FALSE]>> \o rest :
                        rest \in RouteObjs(Tail(req), budget)}
             good == UNION {
                        {<<[waybillNo |-> w, barNewList |-> l, wellFormed |-> TRUE]>> \o rest :
                            rest \in RouteObjs(Tail(req), budget - Len(l))} :
                        l \in RouteListsUpTo(budget)}
         IN  skip \cup bad \cup good

NetError == [net |-> "error", status |-> 0, success |-> Absent]
Http(status, success) == [net |-> "ok", status |-> status, success |-> success]

\* An HTTP exchange either raises in the HTTP layer, or answers with a status
\* other than 200, or answers 200 with a body carrying a success flag.
Replies == {NetError, Http(500, PY_TRUE)} \cup {Http(HTTP_OK, f) : f \in SuccessFlags}

\* The flag check of the three coordinator calls: not data.get("success", False).
ApiFailed(reply) == ~Truthy(Get(reply.success, PY_FALSE))

\* The three ways a coordinator call fails: exception in the HTTP layer, status
\* other than 200, failure flag.
CallFailed(reply) ==
    \/ reply.net = "error"
    \/ reply.status # HTTP_OK
    \/ ApiFailed(reply)

(***************************************************************************)
(* State.                                                                  *)
(***************************************************************************)
VARIABLES
    data,                \* coordinator.data: the snapshot the host holds
    sfbuy_data,          \* coordinator.sfbuy_data
    pickup_code_cache,   \* coordinator._pickup_code_cache
    entry_data,          \* the stored config entry's data (entry.data)
    pc,                  \* where the running cycle is suspended ("idle": none runs)
    waybills,            \* data["obj"]["dataList"] of the running cycle
    routes,              \* the routes dict _fetch_routes is building
    obj,                 \* entries of the route response not yet visited
    result,              \* how the last finished cycle ended
    calls,               \* HTTP requests the cycle has issued, in order
    fetched,             \* per waybill, what its pickup-code lookup did this cycle
    listOutcome,         \* what the list call of this cycle did
    routeOutcome,        \* what the route call of this cycle did
    sfbuyOutcome,        \* what the auxiliary call of this cycle did
    purged,              \* while the list request is in flight: the waybills whose
                         \* cache entry this cycle's purge removed
    flow_result,         \* what the last step of a config / options flow returned
    last_submit,         \* the submission the last flow step handled, if it was one:
                         \* step, user input, verification reply
    sign_call,           \* the last call of generate_syttoken: arguments and token
    sign_prev            \* the call of generate_syttoken before that one

coordVars == <<data, sfbuy_data, pickup_code_cache, pc, waybills, routes,
               obj, result, calls, fetched, listOutcome, routeOutcome, sfbuyOutcome,
               purged>>

flowVars == <<flow_result, last_submit>>

signVars == <<sign_call, sign_prev>>

vars == <<entry_data, coordVars, flowVars, signVars>>

NoData == [isNone |-> TRUE, dataList |-> <<>>]
Snapshot(dl) == [isNone |-> FALSE, dataList |-> dl]

NoSummary == [isNone |-> TRUE, fields |-> <<>>]

NotFetched == [w \in WaybillNo |-> "none"]

(***************************************************************************)
(* Pure helpers of the coordinator.                                        *)
(***************************************************************************)
KeyGreaterTimeFirst(a, b) ==
    \/ a.scanTime > b.scanTime
    \/ a.scanTime = b.scanTime /\ a.scanDate > b.scanDate

\* Tuple order of the sort key (x["scanDate"], x["scanTime"]).
KeyGreater(a, b) ==
    \/ a.scanDate > b.scanDate
    \/ a.scanDate = b.scanDate /\ a.scanTime > b.scanTime

\* Where a stable descending sort puts e in the already sorted s: behind every
\* element whose key is not smaller.
RECURSIVE InsertDesc(_, _)
InsertDesc(e, s) ==
    IF s = <<>> THEN <<e>>
    ELSE IF KeyGreater(e, Head(s)) THEN <<e>> \o s
    ELSE <<Head(s)>> \o InsertDesc(e, Tail(s))

RECURSIVE SortInto(_, _)
SortInto(l, acc) ==
    IF l = <<>> THEN acc ELSE SortInto(Tail(l), InsertDesc(Head(l), acc))

\* sorted(route_list, key=(scanDate, scanTime), reverse=True): stable, so events
\* with equal keys keep their order.
sorted_routes(route_list) == SortInto(route_list, <<>>)

AnyOpCode(latest_route) == latest_route.opCode \in OpCode

\* latest_route.get("opCode") == "125"
IsAwaitingPickup(latest_route) == latest_route.opCode = AWAITING_PICKUP

\* d[k] = v on a dict held as a function.
Put(d, k, v) == [x \in DOMAIN d \cup {k} |-> IF x = k THEN v ELSE d[x]]

\* The purge at the start of a cycle: the cache without the waybills that the
\* snapshot the host holds lists as delivered.
DeliveredIn(snapshot) ==
    IF snapshot.isNone THEN {}
    ELSE {snapshot.dataList[i].waybillno : i \in
            {j \in 1..Len(snapshot.dataList) :
                snapshot.dataList[j].waybillStatus = DELIVERED}}

PurgeNothing(cache, snapshot) == cache

PurgeAll(cache, snapshot) == <<>>

PurgeDelivered(cache, snapshot) ==
    [w \in DOMAIN cache \ DeliveredIn(snapshot) |-> cache[w]]

all_waybills(dl) == [i \in 1..Len(dl) |-> dl[i].waybillno]

\* waybills_in_transit: the numbers of the listed waybills that are not delivered,
\* in list order.
RECURSIVE waybills_in_transit(_)
waybills_in_transit(dl) ==
    IF dl = <<>> THEN <<>>
    ELSE IF Head(dl).waybillStatus # DELIVERED
         THEN <<Head(dl).waybillno>> \o waybills_in_transit(Tail(dl))
         ELSE waybills_in_transit(Tail(dl))

\* What a pickup-code reply makes _fetch_pickup_code return: None on any failure,
\* else obj.recCodeInfo.pickupCode, None when that key is missing.
PickupCodeOf(reply) ==
    IF CallFailed(reply) THEN None ELSE Get(reply.pickupCode, None)

CacheNeverStores(cache, waybill_no, reply) == cache

CacheStoresAnything(cache, waybill_no, reply) ==
    IF CallFailed(reply) THEN cache ELSE Put(cache, waybill_no, PickupCodeOf(reply))

\* The cache after that reply: the code is stored only when it is truthy.
CacheAfter(cache, waybill_no, reply) ==
    IF Truthy(PickupCodeOf(reply))
    THEN Put(cache, waybill_no, PickupCodeOf(reply))
    ELSE cache

FetchKind(reply) ==
    IF CallFailed(reply) THEN "failed"
    ELSE IF Truthy(PickupCodeOf(reply)) THEN "code" ELSE "nocode"

\* The for-loop of _fetch_routes over the entries o of the route response, run
\* from the routes dict r until it must await a pickup-code request ("await": the
\* entry at the head of obj is the one waiting), an entry raises ("error") or the
\* entries are exhausted ("done"). A cache hit returns without a request, so the
\* loop runs on. f records what each lookup did.
RECURSIVE RouteLoop(_, _, _, _)
RouteLoop(r, o, cache, f) ==
    IF o = <<>> THEN [at |-> "done", routes |-> r, obj |-> o, fetched |-> f]
    ELSE LET e == Head(o)
             w == e.waybillNo
             sr == sorted_routes(e.barNewList)
             r1 == Put(r, w, [routes |-> sr, pickupCode |-> None])
         IN  IF ~e.wellFormed
             THEN [at |-> "error", routes |-> r, obj |-> o, fetched |-> f]
             ELSE IF sr # <<>> /\ IsAwaitingPickup(sr[1])
             THEN IF w \in DOMAIN cache
                  THEN RouteLoop(Put(r1, w, [routes |-> sr, pickupCode |-> cache[w]]),
                                 Tail(o), cache, [f EXCEPT ![w] = "hit"])
                  ELSE [at |-> "await", routes |-> r1, obj |-> o, fetched |-> f]
             ELSE RouteLoop(r1, Tail(o), cache, f)

\* The merge of the routes into the listed waybills (the second loop of
\* _async_update_data).
MergeWaybillWithoutCode(waybill, r) ==
    IF waybill.waybillno \notin DOMAIN r THEN waybill
    ELSE [waybill EXCEPT !.hasRoutes = TRUE, !.routes = r[waybill.waybillno].routes]

MergeWaybill(waybill, r) ==
    IF waybill.waybillno \notin DOMAIN r THEN waybill
    ELSE LET route_data == r[waybill.waybillno]
             withRoutes == [waybill EXCEPT !.hasRoutes = TRUE,
                                           !.routes = route_data.routes]
         IN  IF /\ route_data.routes # <<>>
                /\ IsAwaitingPickup(route_data.routes[1])
                /\ Truthy(route_data.pickupCode)
             THEN [withRoutes EXCEPT !.pickupCode = route_data.pickupCode]
             ELSE withRoutes

MergeRoutes(dl, r) == [i \in 1..Len(dl) |-> MergeWaybill(dl[i], r)]

Call(op, arg) == [op |-> op, arg |-> arg]

(***************************************************************************)
(* Replies of the upstream.                                                *)
(***************************************************************************)
ListReplies ==
    {[reply |-> r, dataList |-> <<>>] : r \in {x \in Replies : CallFailed(x)}}
    \cup {[reply |-> r, dataList |-> dl] :
            r \in {x \in Replies : ~CallFailed(x)}, dl \in DataLists}

RouteReplies(req) ==
    {[reply |-> r, obj |-> <<>>] : r \in {x \in Replies : CallFailed(x)}}
    \cup {[reply |-> Http(HTTP_OK, PY_TRUE), obj |-> o] : o \in RouteObjs(req, MaxEvents)}

\* A pickup-code reply: a reply with the obj.recCodeInfo.pickupCode it carries.
PickupReply(r, code) ==
    [net |-> r.net, status |-> r.status, success |-> r.success, pickupCode |-> code]

PickupReplies ==
    {PickupReply(r, Absent) : r \in {x \in Replies : CallFailed(x)}}
    \cup {PickupReply(Http(HTTP_OK, PY_TRUE), c) :
            c \in PickupCodes \cup {Absent, None, EMPTY_STR}}

\* The package-count summary: a dict with some of the four counters.
SummaryKeys ==
    {"awaitForecastCount", "awaitInStorageCount", "awaitPayCount", "awaitSignCount"}
Summary(keys, n) == [isNone |-> FALSE, fields |-> [k \in keys |-> n]]
Summaries == {Summary({}, 0), Summary({"awaitForecastCount"}, 2)}

\* The msg value of a successful reply (the Chinese word for "success").
SFBUY_OK == "success-msg"
SfbuyReplies ==
    {[net |-> "error", status |-> 0, msg |-> Absent, data |-> NoSummary],
     [net |-> "ok", status |-> 500, msg |-> SFBUY_OK, data |-> NoSummary],
     [net |-> "ok", status |-> HTTP_OK, msg |-> "fail", data |-> NoSummary],
     [net |-> "ok", status |-> HTTP_OK, msg |-> Absent, data |-> NoSummary]}
    \cup {[net |-> "ok", status |-> HTTP_OK, msg |-> SFBUY_OK, data |-> d] :
            d \in Summaries \cup {NoSummary}}

\* The three ways the auxiliary call fails: exception in the HTTP layer, status
\* other than 200, a msg other than the success word.
SfbuyFailed(reply) ==
    reply.net = "error" \/ reply.status # HTTP_OK \/ reply.msg # SFBUY_OK

SfbuyResultKeepsLast(reply) == IF SfbuyFailed(reply) THEN sfbuy_data ELSE reply.data

\* What _fetch_sfbuy_data returns for a reply: None on any failure, else
\* data.get("data", {}).
SfbuyResult(reply) == IF SfbuyFailed(reply) THEN NoSummary ELSE reply.data

(***************************************************************************)
(* The config entry and the flows' inputs.                                 *)
(***************************************************************************)
CONF_PHONE_NUMBER == "mobile"
CONF_MEMBER_ID == "member_id"
CONF_SFBUY_TICKET == "sfbuy_ticket"
API_LANGUAGE_CODE == "tc"

\* The nine fields of the form schema.
FormKeys ==
    {CONF_PHONE_NUMBER, CONF_MEMBER_ID, "screensize", "mediacode", "systemversion",
     "clientversion", "model", "deviceid", "jsbundle"}

Mobiles == {"61234567", "91234567"}
MemberIds == {"M1", "M2"}

UserInput(mobile, member_id) ==
    [k \in FormKeys |->
        IF k = CONF_PHONE_NUMBER THEN mobile
        ELSE IF k = CONF_MEMBER_ID THEN member_id
        ELSE "v-" \o k]

\* The dicts a step may be handed: the nine fields, and the same with a
\* secondary-account ticket added by the caller.
UserInputs ==
    {UserInput(m, i) : m \in Mobiles, i \in MemberIds}
    \cup {[k \in FormKeys \cup {CONF_SFBUY_TICKET} |->
              IF k = CONF_SFBUY_TICKET THEN "ticket" ELSE UserInput(m, i)[k]] :
            m \in Mobiles, i \in MemberIds}

NoEntry == [isNone |-> TRUE, d |-> <<>>]
Entry(d) == [isNone |-> FALSE, d |-> d]

\* The dict both flows store: the submitted fields and the language code.
EntryDataFrom(user_input) ==
    [k \in FormKeys \cup {"languagecode"} |->
        IF k = "languagecode" THEN API_LANGUAGE_CODE ELSE user_input[k]]

\* Entries the host may load from its storage when the integration starts:
\* without and with a secondary-account ticket.
StoredEntries ==
    LET d == EntryDataFrom(UserInput("61234567", "M1"))
    IN  {Entry(d), Entry(Put(d, CONF_SFBUY_TICKET, "ticket"))}

\* CONF_SFBUY_TICKET in self.entry.data
HasTicket == ~entry_data.isNone /\ CONF_SFBUY_TICKET \in DOMAIN entry_data.d

\* async_setup_entry: the unique ids of the entities it registers for an entry,
\* the four SFBuy counters only when the entry holds a ticket.
SFBUY_SENSORS == {"sfbuy_forecast", "sfbuy_storage", "sfbuy_pay", "sfbuy_sign"}
async_setup_entry(entry) ==
    {"sfexpress_receiving"}
    \cup (IF CONF_SFBUY_TICKET \in DOMAIN entry.d THEN SFBUY_SENSORS ELSE {})

NoFlowResult == [type |-> "none", step_id |-> "none", errors |-> <<>>]
NoSubmit == [step |-> "none", user_input |-> <<>>, reply |-> <<>>, request |-> <<>>]

(***************************************************************************)
(* The refresh cycle.                                                      *)
(***************************************************************************)
InitCoordinator ==
    /\ data = NoData
    /\ sfbuy_data = NoSummary
    /\ pickup_code_cache = <<>>
    /\ pc = "idle"
    /\ waybills = <<>>
    /\ routes = <<>>
    /\ obj = <<>>
    /\ result = "none"
    /\ calls = <<>>
    /\ fetched = NotFetched
    /\ listOutcome = "none"
    /\ routeOutcome = "none"
    /\ sfbuyOutcome = "none"
    /\ purged = {}

InitFlows ==
    /\ flow_result = NoFlowResult
    /\ last_submit = NoSubmit

\* generate_syttoken has not been called.
NoCall == [called |-> FALSE, args |-> <<>>, token |-> <<>>]
InitSigner ==
    /\ sign_call = NoCall
    /\ sign_prev = NoCall

\* The integration is set up from a stored entry; no flow is open.
Init ==
    /\ entry_data \in StoredEntries
    /\ InitCoordinator
    /\ InitFlows
    /\ InitSigner

\* The cycle returns data["obj"]: the host stores it as the snapshot.
Return(dl) ==
    /\ data' = Snapshot(dl)
    /\ waybills' = dl
    /\ pc' = "idle"
    /\ result' = "returned"

\* From the end of _fetch_routes (which returned r for the listed waybills dl) to
\* the next await or the return: the merge, then the auxiliary request if a ticket is configured.
AfterRoutes(dl, r) ==
    LET merged == MergeRoutes(dl, r)
    IN  IF HasTicket
        THEN /\ waybills' = merged
             /\ pc' = "sfbuy"
             /\ calls' = Append(calls, Call("sfbuy", <<>>))
             /\ UNCHANGED <<data, result>>
        ELSE /\ Return(merged)
             /\ UNCHANGED calls

\* _fetch_routes after its loop advanced to lp.
AfterLoop(lp) ==
    /\ fetched' = lp.fetched
    /\ \/ /\ lp.at = "await"
          /\ pc' = "pickup"
          /\ routes' = lp.routes
          /\ obj' = lp.obj
          /\ calls' = Append(calls, Call("pickup", <<Head(lp.obj).waybillNo>>))
          /\ routeOutcome' = "ok"
          /\ UNCHANGED <<data, waybills, result>>
       \/ /\ lp.at = "done"
          /\ routes' = lp.routes
          /\ obj' = <<>>
          /\ routeOutcome' = "ok"
          /\ AfterRoutes(waybills, lp.routes)
       \/ /\ lp.at = "error"
          /\ routes' = <<>>
          /\ obj' = <<>>
          /\ routeOutcome' = "failed"
          /\ AfterRoutes(waybills, <<>>)

\* The host calls _async_update_data: the purge of the delivered waybills' cache
\* entries, then the list request.
UpdateStart ==
    /\ pc = "idle"
    /\ pickup_code_cache' = PurgeDelivered(pickup_code_cache, data)
    /\ purged' = DOMAIN pickup_code_cache \cap DeliveredIn(data)
    /\ pc' = "list"
    /\ calls' = <<Call("list", <<>>)>>
    /\ result' = "none"
    /\ waybills' = <<>>
    /\ routes' = <<>>
    /\ obj' = <<>>
    /\ fetched' = NotFetched
    /\ listOutcome' = "none"
    /\ routeOutcome' = "none"
    /\ sfbuyOutcome' = "none"
    /\ UNCHANGED <<data, sfbuy_data>>
    /\ UNCHANGED <<entry_data, flowVars, signVars>>

ListFailedReturnsEmpty(rep) ==
    /\ pc = "list"
    /\ CallFailed(rep.reply)
    /\ listOutcome' = "failed"
    /\ purged' = {}
    /\ Return(<<>>)
    /\ UNCHANGED <<sfbuy_data, pickup_code_cache, routes, obj, calls, fetched,
                   routeOutcome>>
    /\ UNCHANGED <<entry_data, flowVars, signVars, sfbuyOutcome>>

ListFailedClearsSummary(rep) ==
    /\ pc = "list"
    /\ CallFailed(rep.reply)
    /\ pc' = "idle"
    /\ result' = "raised"
    /\ listOutcome' = "failed"
    /\ purged' = {}
    /\ sfbuy_data' = NoSummary
    /\ UNCHANGED <<data, pickup_code_cache, waybills, routes,
                   obj, calls, fetched, routeOutcome>>
    /\ UNCHANGED <<entry_data, flowVars, signVars, sfbuyOutcome>>

\* The list request fails: the cycle raises, the host keeps its snapshot.
ListFailed(rep) ==
    /\ pc = "list"
    /\ CallFailed(rep.reply)
    /\ pc' = "idle"
    /\ result' = "raised"
    /\ listOutcome' = "failed"
    /\ purged' = {}
    /\ UNCHANGED <<data, sfbuy_data, pickup_code_cache, waybills, routes,
                   obj, calls, fetched, routeOutcome>>
    /\ UNCHANGED <<entry_data, flowVars, signVars, sfbuyOutcome>>

ListSucceededFanOut(rep) ==
    /\ pc = "list"
    /\ ~CallFailed(rep.reply)
    /\ listOutcome' = "ok"
    /\ waybills' = rep.dataList
    /\ pc' = "route"
    /\ calls' = calls \o <<Call("route", waybills_in_transit(rep.dataList)),
                           Call("sfbuy", <<>>)>>
    /\ purged' = {}
    /\ UNCHANGED <<data, result, sfbuy_data, pickup_code_cache, routes, obj, fetched,
                   routeOutcome>>
    /\ UNCHANGED <<entry_data, flowVars, signVars, sfbuyOutcome>>

\* The list request succeeds: the route request for the waybills in transit, or,
\* when there is none, _fetch_routes returns {} without a request.
ListSucceeded(rep) ==
    /\ pc = "list"
    /\ ~CallFailed(rep.reply)
    /\ listOutcome' = "ok"
    /\ LET in_transit == waybills_in_transit(rep.dataList)
       IN  IF in_transit # <<>>
           THEN /\ waybills' = rep.dataList
                /\ pc' = "route"
                /\ calls' = Append(calls, Call("route", in_transit))
                /\ UNCHANGED <<data, result>>
           ELSE AfterRoutes(rep.dataList, <<>>)
    /\ purged' = {}
    /\ UNCHANGED <<sfbuy_data, pickup_code_cache, routes, obj, fetched,
                   routeOutcome>>
    /\ UNCHANGED <<entry_data, flowVars, signVars, sfbuyOutcome>>

RouteFailedRaises(rep) ==
    /\ pc = "route"
    /\ CallFailed(rep.reply)
    /\ routeOutcome' = "failed"
    /\ pc' = "idle"
    /\ result' = "raised"
    /\ UNCHANGED <<data, sfbuy_data, pickup_code_cache, waybills, routes, obj, calls,
                   fetched, listOutcome, purged>>
    /\ UNCHANGED <<entry_data, flowVars, signVars, sfbuyOutcome>>

RouteFailedRetries(rep) ==
    /\ pc = "route"
    /\ CallFailed(rep.reply)
    /\ calls' = Append(calls, calls[Len(calls)])
    /\ UNCHANGED <<data, sfbuy_data, pickup_code_cache, pc, waybills, routes, obj,
                   result, fetched, listOutcome, routeOutcome, purged>>
    /\ UNCHANGED <<entry_data, flowVars, signVars, sfbuyOutcome>>

\* The route request fails (exception, status, flag): _fetch_routes returns {}.
RouteFailed(rep) ==
    /\ pc = "route"
    /\ CallFailed(rep.reply)
    /\ routes' = <<>>
    /\ obj' = <<>>
    /\ routeOutcome' = "failed"
    /\ AfterRoutes(waybills, <<>>)
    /\ UNCHANGED <<sfbuy_data, pickup_code_cache, fetched, listOutcome, purged>>
    /\ UNCHANGED <<entry_data, flowVars, signVars, sfbuyOutcome>>

\* The route request succeeds: the loop over its entries starts.
RouteSucceeded(rep) ==
    /\ pc = "route"
    /\ ~CallFailed(rep.reply)
    /\ AfterLoop(RouteLoop(<<>>, rep.obj, pickup_code_cache, fetched))
    /\ UNCHANGED <<sfbuy_data, pickup_code_cache, listOutcome, purged>>
    /\ UNCHANGED <<entry_data, flowVars, signVars, sfbuyOutcome>>

\* The pickup-code request of the entry at the head of obj is answered:
\* _fetch_pickup_code returns, the entry is completed and the loop goes on.
PickupReplied(rep) ==
    /\ pc = "pickup"
    /\ LET waybill_no == Head(obj).waybillNo
           pickup_code == PickupCodeOf(rep)
           cache == CacheAfter(pickup_code_cache, waybill_no, rep)
           r == IF Truthy(pickup_code)
                THEN [routes EXCEPT ![waybill_no].pickupCode = pickup_code]
                ELSE routes
           f == [fetched EXCEPT ![waybill_no] = FetchKind(rep)]
       IN  /\ pickup_code_cache' = cache
           /\ AfterLoop(RouteLoop(r, Tail(obj), cache, f))
    /\ UNCHANGED <<sfbuy_data, listOutcome, purged>>
    /\ UNCHANGED <<entry_data, flowVars, signVars, sfbuyOutcome>>

SfbuyFailureRaises(rep) ==
    /\ pc = "sfbuy"
    /\ sfbuyOutcome' = IF SfbuyFailed(rep) THEN "failed" ELSE "ok"
    /\ IF SfbuyFailed(rep)
       THEN /\ pc' = "idle"
            /\ result' = "raised"
            /\ UNCHANGED <<data, sfbuy_data, waybills>>
       ELSE /\ sfbuy_data' = SfbuyResult(rep)
            /\ Return(waybills)
    /\ UNCHANGED <<pickup_code_cache, routes, obj, calls, fetched,
                   listOutcome, routeOutcome, purged>>
    /\ UNCHANGED <<entry_data, flowVars, signVars>>

SfbuyAssignedThenRaised(rep) ==
    /\ pc = "sfbuy"
    /\ sfbuyOutcome' = IF SfbuyFailed(rep) THEN "failed" ELSE "ok"
    /\ sfbuy_data' = SfbuyResult(rep)
    /\ pc' = "idle"
    /\ result' = "raised"
    /\ UNCHANGED <<data, waybills>>
    /\ UNCHANGED <<pickup_code_cache, routes, obj, calls, fetched,
                   listOutcome, routeOutcome, purged>>
    /\ UNCHANGED <<entry_data, flowVars, signVars>>

\* The auxiliary request is answered: sfbuy_data is assigned and the cycle returns.
SfbuyReplied(rep) ==
    /\ pc = "sfbuy"
    /\ sfbuyOutcome' = IF SfbuyFailed(rep) THEN "failed" ELSE "ok"
    /\ sfbuy_data' = SfbuyResult(rep)
    /\ Return(waybills)
    /\ UNCHANGED <<pickup_code_cache, routes, obj, calls, fetched,
                   listOutcome, routeOutcome, purged>>
    /\ UNCHANGED <<entry_data, flowVars, signVars>>

Next ==
    \/ UpdateStart
    \/ \E rep \in ListReplies : ListFailed(rep)
    \/ \E rep \in ListReplies : ListSucceeded(rep)
    \/ pc = "route" /\ \E rep \in RouteReplies(calls[Len(calls)].arg) : RouteFailed(rep)
    \/ pc = "route" /\ \E rep \in RouteReplies(calls[Len(calls)].arg) : RouteSucceeded(rep)
    \/ \E rep \in PickupReplies : PickupReplied(rep)
    \/ \E rep \in SfbuyReplies : SfbuyReplied(rep)

Spec == Init /\ [][Next]_vars

(***************************************************************************)
(* Presentation: the waybill sensor.                                       *)
(***************************************************************************)
\* SFExpressWaybillSensor.native_value: None without a snapshot, else the number
\* of listed waybills that are not delivered.
CountAll(dl) == Len(dl)

RECURSIVE CountActive(_)
CountActive(dl) ==
    IF dl = <<>> THEN 0
    ELSE (IF Head(dl).waybillStatus # DELIVERED THEN 1 ELSE 0) + CountActive(Tail(dl))

native_value_without_none(snapshot) ==
    [isNone |-> FALSE, value |-> CountActive(snapshot.dataList)]

native_value(snapshot) ==
    IF snapshot.isNone THEN [isNone |-> TRUE, value |-> 0]
    ELSE [isNone |-> FALSE, value |-> CountActive(snapshot.dataList)]

\* One entry of the "waybills" attribute: "pickupCode" and "routes" are copied
\* only when the waybill dict has the key; the routes are sorted again.
WaybillAttributes(waybill) ==
    [waybillno |-> waybill.waybillno,
     pickupCode |-> waybill.pickupCode,
     hasRoutes |-> waybill.hasRoutes,
     routes |-> IF waybill.hasRoutes THEN sorted_routes(waybill.routes) ELSE <<>>]

RECURSIVE ActiveAttributes(_)
ActiveAttributes(dl) ==
    IF dl = <<>> THEN <<>>
    ELSE IF Head(dl).waybillStatus = DELIVERED THEN ActiveAttributes(Tail(dl))
    ELSE <<WaybillAttributes(Head(dl))>> \o ActiveAttributes(Tail(dl))

\* SFExpressWaybillSensor.extra_state_attributes: {} without a snapshot, else
\* {"waybills": [...]} with the waybills that are not delivered.
extra_state_attributes(snapshot) ==
    IF snapshot.isNone THEN [isEmpty |-> TRUE, waybills |-> <<>>]
    ELSE [isEmpty |-> FALSE, waybills |-> ActiveAttributes(snapshot.dataList)]

\* The summary key each SFBuy sensor reads, by the sensor's unique id.
SFBuyKey ==
    [sfbuy_forecast |-> "awaitForecastCount", sfbuy_storage |-> "awaitInStorageCount",
     sfbuy_pay |-> "awaitPayCount", sfbuy_sign |-> "awaitSignCount"]

\* native_value of the four SFBuy sensors: None when sfbuy_data is falsy (None or
\* the empty dict), else sfbuy_data.get(key, 0).
sfbuy_native_value(summary, sensor) ==
    IF summary.isNone \/ DOMAIN summary.fields = {}
    THEN [isNone |-> TRUE, value |-> 0]
    ELSE [isNone |-> FALSE,
          value |-> IF SFBuyKey[sensor] \in DOMAIN summary.fields
                    THEN summary.fields[SFBuyKey[sensor]] ELSE 0]

(***************************************************************************)
(* The token signer (utils.py).                                            *)
(*                                                                         *)
(* A string is the sequence of its pieces and + is \o. The digest of a     *)
(* string is the string itself between two marks no input contains: a      *)
(* collision-free hash, different strings having different digests.        *)
(***************************************************************************)
BODY_SECRET == "TndwQDlCMlZPUE1mUFFpNEI5Tn4mUEpGUVlxNkNTT3c="
FIRST_SECRET == "ZXYyV01CfnE0YSZheVNEdkVORDU3SThCK2duVkReQG8="
SECOND_SECRET == "NmhuOFRUZWtPcEVLOTJhJSt1eWdHQWxoaSRiYSRZNjI="

\* base64.b64decode(encoded).decode("utf-8") of the three constants, each decoded
\* text held as one piece.
decode_secret(encoded) ==
    CASE encoded = BODY_SECRET -> <<"Nwp@9B2VOPMfPQi4B9N~&PJFQYq6CSOw">>
      [] encoded = FIRST_SECRET -> <<"ev2WMB~q4a&aySDvEND57I8B+gnVD^@o">>
      [] encoded = SECOND_SECRET -> <<"6hn8TTekOpEK92a%+uygGAlhi$ba$Y62">>

AMP == <<"&">>

md5_hex(string) == <<"md5(">> \o string \o <<")">>

generate_syttoken_version_first(body_json, device_id, client_version, time_interval, region_code, language_code, js_bundle) ==
    LET body_hash == md5_hex(body_json \o AMP \o decode_secret(BODY_SECRET))
        first_secret == decode_secret(FIRST_SECRET)
        raw_str1 == device_id \o client_version \o time_interval \o first_secret
                    \o region_code \o language_code \o body_hash \o js_bundle
        md5_1 == md5_hex(raw_str1 \o AMP \o first_secret)
    IN  md5_hex(md5_1 \o AMP \o decode_secret(SECOND_SECRET))

generate_syttoken_without_bundle(body_json, device_id, client_version, time_interval, region_code, language_code, js_bundle) ==
    LET body_hash == md5_hex(body_json \o AMP \o decode_secret(BODY_SECRET))
        first_secret == decode_secret(FIRST_SECRET)
        raw_str1 == device_id \o time_interval \o client_version \o first_secret
                    \o region_code \o language_code \o body_hash
        md5_1 == md5_hex(raw_str1 \o AMP \o first_secret)
    IN  md5_hex(md5_1 \o AMP \o decode_secret(SECOND_SECRET))

generate_syttoken(body_json, device_id, client_version, time_interval, region_code, language_code, js_bundle) ==
    LET body_secret == decode_secret(BODY_SECRET)
        body_hash == md5_hex(body_json \o AMP \o body_secret)
        first_secret == decode_secret(FIRST_SECRET)
        raw_str1 == device_id \o time_interval \o client_version \o first_secret
                    \o region_code \o language_code \o body_hash \o js_bundle
        md5_1 == md5_hex(raw_str1 \o AMP \o first_secret)
        second_secret == decode_secret(SECOND_SECRET)
    IN  md5_hex(md5_1 \o AMP \o second_secret)

(***************************************************************************)
(* The setup flow and the options flow.                                    *)
(***************************************************************************)
ErrorMessages == {Absent, EMPTY_STR, "member not found"}

VerifyReply(r, msg) ==
    [net |-> r.net, status |-> r.status, success |-> r.success, errorMessage |-> msg]

VerifyReplies ==
    {VerifyReply(NetError, Absent), VerifyReply(Http(500, PY_TRUE), Absent)}
    \cup {VerifyReply(Http(HTTP_OK, f), m) : f \in SuccessFlags, m \in ErrorMessages}

\* The clock, in milliseconds: int(time.time() * 1000) at two successive reads.
Millis == {999, 1000}
ClockReads == {c \in Millis \X Millis : c[1] <= c[2]}

\* str(n) of a natural number: its decimal digits.
Digit == <<"0", "1", "2", "3", "4", "5", "6", "7", "8", "9">>
RECURSIVE str(_)
str(n) == IF n < 10 THEN <<Digit[n + 1]>> ELSE str(n \div 10) \o <<Digit[(n % 10) + 1]>>

API_REGION_CODE == "HK"

\* The request _verify_sf_express sends: the token is signed with the clock's
\* first read, the timeinterval header is built from a second read.
verify_request(user_input, clock) ==
    LET body_json == <<"{\"memberId\": \"", user_input[CONF_MEMBER_ID], "\"}">>
        syttoken == generate_syttoken(body_json, <<user_input["deviceid"]>>,
                                      <<user_input["clientversion"]>>, str(clock[1]),
                                      <<API_REGION_CODE>>, <<API_LANGUAGE_CODE>>,
                                      <<user_input["jsbundle"]>>)
    IN  [body |-> body_json,
         headers |-> [clientversion |-> user_input["clientversion"],
                      deviceid |-> user_input["deviceid"],
                      jsbundle |-> user_input["jsbundle"],
                      regioncode |-> API_REGION_CODE,
                      languagecode |-> API_LANGUAGE_CODE,
                      timeinterval |-> str(clock[2]),
                      syttoken |-> syttoken]]

Raised(exc, msg) == [exc |-> exc, msg |-> msg]
Returned == Raised("none", EMPTY_STR)

\* _verify_sf_express (the same body in both flows): an error of the HTTP layer
\* propagates as it is; a status other than 200 raises CannotConnect; data["success"]
\* raises KeyError without the key; InvalidAuth is raised when the flag equals the
\* string "false"; anything else returns.
verify_sf_express(reply) ==
    IF reply.net = "error" THEN Raised("ClientError", EMPTY_STR)
    ELSE IF reply.status # HTTP_OK THEN Raised("CannotConnect", EMPTY_STR)
    ELSE IF reply.success = Absent THEN Raised("KeyError", EMPTY_STR)
    ELSE IF reply.success = STR_FALSE
         THEN Raised("InvalidAuth", Get(reply.errorMessage, "Unknown error"))
    ELSE Returned

\* The except clauses of both steps: the errors dict of a verification outcome.
ErrorsOf(outcome) ==
    IF outcome.exc = "none" THEN <<>>
    ELSE IF outcome.exc = "CannotConnect" THEN [base |-> "cannot_connect"]
    ELSE IF outcome.exc = "InvalidAuth" THEN [base |-> outcome.msg]
    ELSE [base |-> "unknown"]

ShowForm(step_id, errors) == [type |-> "form", step_id |-> step_id, errors |-> errors]
CreateEntry(step_id) == [type |-> "create_entry", step_id |-> step_id, errors |-> <<>>]
Submit(step, user_input, reply, clock) ==
    [step |-> step, user_input |-> user_input, reply |-> reply,
     request |-> verify_request(user_input, clock)]

\* async_step_user(None): the empty form.
UserShowForm ==
    /\ entry_data.isNone
    /\ flow_result' = ShowForm("user", <<>>)
    /\ last_submit' = NoSubmit
    /\ UNCHANGED <<entry_data, coordVars, signVars>>

async_step_user_always_creates(user_input, reply, clock) ==
    /\ entry_data.isNone
    /\ last_submit' = Submit("user", user_input, reply, clock)
    /\ entry_data' = Entry(EntryDataFrom(user_input))
    /\ flow_result' = CreateEntry("user")
    /\ UNCHANGED <<coordVars, signVars>>

\* async_step_user(user_input), the verification answered by reply.
async_step_user(user_input, reply, clock) ==
    /\ entry_data.isNone
    /\ last_submit' = Submit("user", user_input, reply, clock)
    /\ LET outcome == verify_sf_express(reply)
       IN  IF outcome.exc = "none"
           THEN /\ entry_data' = Entry(EntryDataFrom(user_input))
                /\ flow_result' = CreateEntry("user")
           ELSE /\ flow_result' = ShowForm("user", ErrorsOf(outcome))
                /\ UNCHANGED entry_data
    /\ UNCHANGED <<coordVars, signVars>>

\* async_step_init(None): the form with the stored values.
OptionsShowForm ==
    /\ ~entry_data.isNone
    /\ flow_result' = ShowForm("init", <<>>)
    /\ last_submit' = NoSubmit
    /\ UNCHANGED <<entry_data, coordVars, signVars>>

async_step_init_always_updates(user_input, reply, clock) ==
    /\ ~entry_data.isNone
    /\ last_submit' = Submit("init", user_input, reply, clock)
    /\ entry_data' = Entry(EntryDataFrom(user_input))
    /\ flow_result' = ShowForm("init", ErrorsOf(verify_sf_express(reply)))
    /\ UNCHANGED <<coordVars, signVars>>

\* async_step_init(user_input), the verification answered by reply.
async_step_init(user_input, reply, clock) ==
    /\ ~entry_data.isNone
    /\ last_submit' = Submit("init", user_input, reply, clock)
    /\ LET errors == ErrorsOf(verify_sf_express(reply))
       IN  IF errors = <<>>
           THEN /\ entry_data' = Entry(EntryDataFrom(user_input))
                /\ flow_result' = CreateEntry("init")
           ELSE /\ flow_result' = ShowForm("init", errors)
                /\ UNCHANGED entry_data
    /\ UNCHANGED <<coordVars, signVars>>

\* The flows start with no entry stored and no coordinator running.
InitSetup ==
    /\ entry_data = NoEntry
    /\ InitCoordinator
    /\ InitFlows
    /\ InitSigner

NextSetup ==
    \/ UserShowForm
    \/ \E user_input \in UserInputs, reply \in VerifyReplies, clock \in ClockReads :
          async_step_user(user_input, reply, clock)
    \/ OptionsShowForm
    \/ \E user_input \in UserInputs, reply \in VerifyReplies, clock \in ClockReads :
          async_step_init(user_input, reply, clock)

SetupSpec == InitSetup /\ [][NextSetup]_vars

(***************************************************************************)
(* Calls of the signer on its own.                                         *)
(***************************************************************************)
\* The arguments of a call: two values for each, chosen so that neighbouring
\* arguments can shift a piece from one to the other, and one may be empty.
SignArgs ==
    [body_json : {<<"{", "}">>, <<"{", "m", "}">>},
     device_id : {<<"a">>, <<"a", "b">>},
     client_version : {<<"9">>, <<"b", "9">>},
     time_interval : {<<"b", "1">>, <<"1">>},
     region_code : {<<"H">>, <<"H", "t">>},
     language_code : {<<"t", "c">>, <<"c">>},
     js_bundle : {<<>>, <<"j">>}]

\* A caller computes the token of a request.
Sign(args) ==
    /\ sign_prev' = sign_call
    /\ sign_call' =
          [called |-> TRUE, args |-> args,
           token |-> generate_syttoken(args.body_json, args.device_id,
                                       args.client_version, args.time_interval,
                                       args.region_code, args.language_code,
                                       args.js_bundle)]
    /\ UNCHANGED <<entry_data, coordVars, flowVars>>

NextSign == \E args \in SignArgs : Sign(args)

SignSpec == InitSetup /\ [][NextSign]_vars

(***************************************************************************)
(* Properties.                                                             *)
(***************************************************************************)
\* The waybill dicts of the snapshot the host holds.
SnapshotWaybills == {data.dataList[i] : i \in 1..Len(data.dataList)}

\* The newest event of a non-empty route list, by (scanDate, scanTime).
LatestEvent(rts) ==
    CHOOSE e \in {rts[i] : i \in 1..Len(rts)} :
        \A j \in 1..Len(rts) :
            \/ rts[j].scanDate < e.scanDate
            \/ rts[j].scanDate = e.scanDate /\ rts[j].scanTime <= e.scanTime

HasEvents(wb) == wb.hasRoutes /\ wb.routes # <<>>
LatestIs125(wb) == HasEvents(wb) /\ LatestEvent(wb.routes).opCode = "125"

\* A cycle has just returned: the snapshot is the one it produced.
JustReturned == pc = "idle" /\ result = "returned"

\* C1: between refresh cycles every key of the pickup-code cache that the
\* snapshot lists is a waybill that is not delivered and whose latest route
\* event, where the snapshot has route events for it, has operation code "125".
C1_CacheKeysAwaitPickup ==
    pc = "idle" =>
        \A wb \in SnapshotWaybills :
            wb.waybillno \in DOMAIN pickup_code_cache =>
                /\ wb.waybillStatus # "4"
                /\ HasEvents(wb) => LatestIs125(wb)

\* C2: when a cycle reaches its list fetch, the cache holds no entry for any
\* waybill that the snapshot of the previous cycle lists with status "4".
C2_DeliveredPurgedBeforeListFetch ==
    pc = "list" =>
        \A wb \in SnapshotWaybills :
            wb.waybillStatus = "4" => wb.waybillno \notin DOMAIN pickup_code_cache

\* C2 witness: a list fetch is in flight after the purge removed an entry.
C2_Witness == pc = "list" /\ purged # {}

\* C3 as stated: in a returned snapshot a waybill whose latest route event is
\* "125" and whose pickup-code fetch of that cycle succeeded (status 200, no
\* failure flag) carries a pickup code.
C3_SucceededFetchCarriesCode ==
    JustReturned =>
        \A wb \in SnapshotWaybills :
            (LatestIs125(wb) /\ fetched[wb.waybillno] \in {"code", "nocode"})
                => wb.pickupCode \notin {Absent, None, EMPTY_STR}

\* C3 amended: in a returned snapshot a waybill whose latest route event is "125"
\* and whose pickup-code fetch of that cycle succeeded with a non-empty code
\* carries a pickup code, the one now cached for it.
C3_FetchedCodeCarried ==
    JustReturned =>
        \A wb \in SnapshotWaybills :
            (LatestIs125(wb) /\ fetched[wb.waybillno] = "code")
                => /\ wb.pickupCode \in PickupCodes
                   /\ wb.waybillno \in DOMAIN pickup_code_cache
                   /\ wb.pickupCode = pickup_code_cache[wb.waybillno]

\* C3 witness: a returned snapshot carries a code fetched in that cycle.
C3_Witness ==
    /\ JustReturned
    /\ \E wb \in SnapshotWaybills :
          /\ LatestIs125(wb)
          /\ fetched[wb.waybillno] = "code"
          /\ wb.pickupCode \in PickupCodes

\* C4: in every snapshot a waybill whose latest route event is not "125", or
\* that has no route events, carries no pickup code.
C4_NoCodeUnlessAwaitingPickup ==
    \A wb \in SnapshotWaybills : ~LatestIs125(wb) => wb.pickupCode = Absent

\* C4 witness: a returned snapshot holds a waybill with route events, the latest
\* not "125", while the cache holds a code for it.
C4_Witness ==
    /\ JustReturned
    /\ \E wb \in SnapshotWaybills :
          /\ HasEvents(wb)
          /\ ~LatestIs125(wb)
          /\ wb.waybillno \in DOMAIN pickup_code_cache
          /\ wb.pickupCode = Absent

\* The step in which the list fetch fails.
ListFailureStep ==
    (pc = "list" /\ listOutcome' = "failed") =>
        /\ pc' = "idle"
        /\ result' = "raised"
        /\ data' = data
        /\ calls' = <<Call("list", <<>>)>>

\* C5: the step in which the list fetch fails ends the cycle by raising, with the
\* snapshot unchanged and the list request the only request of the cycle.
C5_ListFailureRaises == [][ListFailureStep]_vars

\* C5 witness: a cycle raised while the host held a snapshot with waybills.
C5_Witness ==
    /\ pc = "idle"
    /\ result = "raised"
    /\ listOutcome = "failed"
    /\ ~data.isNone
    /\ data.dataList # <<>>

\* What a list response says of each waybill: number and status, in order.
Listed(dl) == [i \in 1..Len(dl) |-> <<dl[i].waybillno, dl[i].waybillStatus>>]

\* A step of a cycle whose list fetch has succeeded.
EnrichmentStep ==
    pc \in {"route", "pickup", "sfbuy"} =>
        /\ result' # "raised"
        /\ pc' = "idle" =>
              /\ result' = "returned"
              /\ ~data'.isNone
              /\ Listed(data'.dataList) = Listed(waybills)

\* C6: once the list fetch has succeeded no step of the cycle raises, and the step
\* that ends the cycle returns a snapshot listing every waybill of the list
\* response.
C6_EnrichmentFailureNeverRaises == [][EnrichmentStep]_vars

\* C6 witness: a cycle returned every listed waybill although a pickup-code call
\* failed, the waybill concerned having its routes but no pickup code.
C6_Witness ==
    /\ JustReturned
    /\ Len(data.dataList) > 1
    /\ \E wb \in SnapshotWaybills :
          /\ fetched[wb.waybillno] = "failed"
          /\ LatestIs125(wb)
          /\ wb.pickupCode = Absent

\* The verification call was answered with status 200.
ReplyIs200(reply) == reply.net = "ok" /\ reply.status = 200

\* C7: verification succeeds exactly when the reply has status 200 and a truthy
\* success field (the string "false" counting as the failure flag), and a
\* failure-flag reply fails with the upstream error message.
C7_VerifyIffSuccess ==
    last_submit.step = "user" =>
        LET reply == last_submit.reply
            truthy == reply.success \in {PY_TRUE, STR_TRUE}
        IN  /\ flow_result.type = "create_entry" <=> (ReplyIs200(reply) /\ truthy)
            /\ (ReplyIs200(reply) /\ reply.success \in {PY_FALSE, STR_FALSE})
                  => flow_result.errors =
                        [base |-> Get(reply.errorMessage, "Unknown error")]

\* C8: at setup a verification call that ends in a status other than 200 or in
\* an error of the HTTP layer shows the "cannot_connect" error.
C8_ConnectivityIsCannotConnect ==
    (last_submit.step = "user" /\ ~ReplyIs200(last_submit.reply))
        => /\ flow_result.type = "form"
           /\ flow_result.errors = [base |-> "cannot_connect"]

\* C9: a setup submission whose verification fails shows the user form again with
\* exactly one error and creates no entry; an entry exists only once a submission
\* whose verification did not fail has created it.
C9_SetupFailureShowsForm ==
    /\ last_submit.step = "user" =>
          LET failed == verify_sf_express(last_submit.reply).exc # "none"
          IN  /\ failed => /\ flow_result.type = "form"
                           /\ flow_result.step_id = "user"
                           /\ Cardinality(DOMAIN flow_result.errors) = 1
                           /\ entry_data.isNone
              /\ ~failed => /\ flow_result.type = "create_entry"
                            /\ entry_data = Entry(EntryDataFrom(last_submit.user_input))
    /\ (flow_result.step_id # "init" /\ flow_result.type # "create_entry")
          => entry_data.isNone

\* C9 witness: a submission failed with an unexpected exception.
C9_Witness ==
    /\ last_submit.step = "user"
    /\ flow_result = ShowForm("user", [base |-> "unknown"])
    /\ entry_data.isNone

\* C10: the active count is the number of waybills of the snapshot with a status
\* other than "4", the attribute list holds exactly those waybills, and an
\* attribute entry has a pickup code only if the snapshot's waybill carries it.
C10_SensorProjection ==
    ~data.isNone =>
        LET dl == data.dataList
            active == {i \in 1..Len(dl) : dl[i].waybillStatus # "4"}
            attrs == extra_state_attributes(data).waybills
        IN  /\ ~native_value(data).isNone
            /\ native_value(data).value = Cardinality(active)
            /\ Len(attrs) = Cardinality(active)
            /\ {attrs[i].waybillno : i \in 1..Len(attrs)} =
                  {dl[i].waybillno : i \in active}
            /\ \A i \in 1..Len(attrs) :
                  attrs[i].pickupCode # Absent =>
                      \E j \in active :
                          /\ dl[j].waybillno = attrs[i].waybillno
                          /\ dl[j].pickupCode = attrs[i].pickupCode

\* C10 witness: one delivered waybill and one in transit at "125" with a fetched
\* code: the count is 1 and the only attribute entry shows the code.
C10_Witness ==
    /\ JustReturned
    /\ Len(data.dataList) = 2
    /\ data.dataList[1].waybillStatus = "4"
    /\ data.dataList[2].waybillStatus # "4"
    /\ LatestIs125(data.dataList[2])
    /\ fetched[data.dataList[2].waybillno] = "code"
    /\ native_value(data).value = 1
    /\ Len(extra_state_attributes(data).waybills) = 1
    /\ extra_state_attributes(data).waybills[1].pickupCode \in PickupCodes

\* (d1, t1) < (d2, t2) of two events.
StampLess(a, b) ==
    \/ a.scanDate < b.scanDate
    \/ a.scanDate = b.scanDate /\ a.scanTime < b.scanTime

\* Of any two events of the list, the one with the greater stamp comes first.
SortedDesc(rts) ==
    \A i, j \in 1..Len(rts) : StampLess(rts[i], rts[j]) => j < i

\* C11: every route list stored in the snapshot and every route list emitted in
\* the sensor attributes is sorted by (scanDate, scanTime) descending, and a
\* pickup-code request is in flight only for an entry whose newest event, the
\* first of the stored list, has operation code "125".
C11_RoutesSortedDescending ==
    /\ \A wb \in SnapshotWaybills : wb.hasRoutes => SortedDesc(wb.routes)
    /\ LET attrs == extra_state_attributes(data).waybills
       IN  \A i \in 1..Len(attrs) : SortedDesc(attrs[i].routes)
    /\ pc = "pickup" =>
          LET e == Head(obj)
          IN  /\ e.barNewList # <<>>
              /\ LatestEvent(e.barNewList).opCode = "125"
              /\ routes[e.waybillNo].routes[1] = LatestEvent(e.barNewList)
              /\ SortedDesc(routes[e.waybillNo].routes)

\* C11 witness: the route response listed the older event first and only the
\* newer one is "125"; the returned snapshot and the attributes show the newer
\* one first.
C11_Witness ==
    /\ JustReturned
    /\ \E wb \in SnapshotWaybills :
          /\ wb.waybillStatus # "4"
          /\ Len(wb.routes) = 2
          /\ StampLess(wb.routes[2], wb.routes[1])
          /\ wb.routes[1].opCode = "125"
          /\ wb.routes[2].opCode # "125"
          /\ fetched[wb.waybillno] = "code"
          /\ \E i \in 1..Len(extra_state_attributes(data).waybills) :
                extra_state_attributes(data).waybills[i].routes = wb.routes

\* The step that answers the auxiliary request, whatever the answer.
SfbuyStep ==
    pc = "sfbuy" =>
        /\ pc' = "idle"
        /\ result' = "returned"
        /\ data' = Snapshot(waybills)

IssuedOps == {calls[i].op : i \in 1..Len(calls)}

\* C12: whatever the auxiliary request is answered, the cycle returns the waybill
\* snapshot it had built before the request; and without a ticket in the entry no
\* auxiliary request is issued.
C12_AuxiliaryFailureSwallowed ==
    /\ [][SfbuyStep]_vars
    /\ [](~HasTicket => "sfbuy" \notin IssuedOps)

\* C12 witness: with a ticket configured a cycle returned its waybills although
\* the auxiliary request failed.
C12_Witness ==
    /\ JustReturned
    /\ HasTicket
    /\ sfbuyOutcome = "failed"
    /\ data.dataList # <<>>
    /\ data.dataList = waybills

\* C13: a submission of the setup or the options flow that supplies a ticket and
\* is accepted leaves the ticket in the stored entry data, so that the four SFBuy
\* counters are registered for the entry.
C13_SuppliedTicketStored ==
    (/\ last_submit.step \in {"user", "init"}
     /\ flow_result.type = "create_entry"
     /\ CONF_SFBUY_TICKET \in DOMAIN last_submit.user_input)
        => /\ HasTicket
           /\ SFBUY_SENSORS \subseteq async_setup_entry(entry_data)

\* C14: while the host holds no snapshot the active count is None, the attribute
\* set is empty and each of the four SFBuy counters is None.
C14_NeutralWithoutSnapshot ==
    data.isNone =>
        /\ native_value(data).isNone
        /\ extra_state_attributes(data).isEmpty
        /\ \A sensor \in SFBUY_SENSORS : sfbuy_native_value(sfbuy_data, sensor).isNone

\* C14 witness: with a ticket configured the first cycle has listed waybills and
\* awaits the auxiliary reply; the host holds no snapshot yet.
C14_Witness ==
    /\ data.isNone
    /\ HasTicket
    /\ pc = "sfbuy"
    /\ waybills # <<>>

\* The token as the specification writes it, for the arguments a.
SpecToken(a) ==
    LET bodySecret == decode_secret(BODY_SECRET)
        firstSecret == decode_secret(FIRST_SECRET)
        secondSecret == decode_secret(SECOND_SECRET)
    IN  md5_hex(md5_hex(a.device_id \o a.time_interval \o a.client_version
                        \o firstSecret \o a.region_code \o a.language_code
                        \o md5_hex(a.body_json \o <<"&">> \o bodySecret)
                        \o a.js_bundle \o <<"&">> \o firstSecret)
            \o <<"&">> \o secondSecret)

\* C15: the token of every call is the nested digest of the specification, the
\* fields taken in its order, and two calls with the same seven arguments give
\* the same token.
C15_TokenFormula ==
    /\ sign_call.called => sign_call.token = SpecToken(sign_call.args)
    /\ (sign_call.called /\ sign_prev.called /\ sign_call.args = sign_prev.args)
          => sign_call.token = sign_prev.token

\* C15 witness: the same arguments were signed twice, time interval and client
\* version being different strings.
C15_Witness ==
    /\ sign_call.called
    /\ sign_prev.called
    /\ sign_call.args = sign_prev.args
    /\ sign_call.args.time_interval # sign_call.args.client_version
    /\ sign_call.token = sign_prev.token

SignFields == {"body_json", "device_id", "client_version", "time_interval",
               "region_code", "language_code", "js_bundle"}

\* The arguments in which the last two calls differ.
ChangedFields == {f \in SignFields : sign_call.args[f] # sign_prev.args[f]}

\* C16: two calls that differ in exactly one of the seven arguments give
\* different tokens.
C16_SingleChangeChangesToken ==
    (sign_call.called /\ sign_prev.called /\ Cardinality(ChangedFields) = 1)
        => sign_call.token # sign_prev.token

\* C16 witness: the last two calls differ in the JS bundle only, one of them
\* with the empty bundle, and their tokens differ.
C16_Witness ==
    /\ sign_call.called
    /\ sign_prev.called
    /\ ChangedFields = {"js_bundle"}
    /\ sign_call.args.js_bundle = <<>>
    /\ sign_call.token # sign_prev.token

\* The pickup-code requests this cycle has issued for the waybill w.
PickupCallsFor(w) == {i \in 1..Len(calls) : calls[i] = Call("pickup", <<w>>)}

\* What C17 says of a lookup that found an entry and of a lookup that found none.
HitOrOneRequest ==
    /\ \A w \in WaybillNo :
          /\ fetched[w] = "hit" =>
                /\ PickupCallsFor(w) = {}
                /\ w \in DOMAIN pickup_code_cache
                /\ w \in DOMAIN routes => routes[w].pickupCode = pickup_code_cache[w]
          /\ fetched[w] \in {"code", "nocode", "failed"} =>
                Cardinality(PickupCallsFor(w)) = 1
    /\ pc = "pickup" =>
          /\ Head(obj).waybillNo \notin DOMAIN pickup_code_cache
          /\ Cardinality(PickupCallsFor(Head(obj).waybillNo)) = 1

\* C17 as stated: a lookup that finds an entry returns it without a request, a
\* lookup that finds none issues exactly one request, and whenever that request
\* succeeded (status 200, no failure flag) the waybill has a cache entry.
C17_LookupOrFetch ==
    /\ HitOrOneRequest
    /\ \A w \in WaybillNo :
          fetched[w] \in {"code", "nocode"} => w \in DOMAIN pickup_code_cache

\* C17 amended: as above, but the waybill has a cache entry, holding the code,
\* when the request succeeded with a non-empty code; a request that failed or
\* succeeded without a code stores nothing.
C17_LookupOrFetchNonEmpty ==
    /\ HitOrOneRequest
    /\ \A w \in WaybillNo :
          /\ fetched[w] = "code" =>
                /\ w \in DOMAIN pickup_code_cache
                /\ pickup_code_cache[w] \in PickupCodes
          /\ fetched[w] \in {"nocode", "failed"} => w \notin DOMAIN pickup_code_cache

\* C17 witness: a cycle returned in which one lookup was a cache hit, without a
\* request, and the snapshot shows the cached code.
C17_Witness ==
    /\ JustReturned
    /\ \E wb \in SnapshotWaybills :
          /\ fetched[wb.waybillno] = "hit"
          /\ PickupCallsFor(wb.waybillno) = {}
          /\ wb.pickupCode = pickup_code_cache[wb.waybillno]

\* The waybills the snapshot lists with a status other than "4".
ActiveWaybills == {wb.waybillno : wb \in {x \in SnapshotWaybills : x.waybillStatus # "4"}}

\* C18: the cache keys are among the active waybills of the current snapshot,
\* read at the point most favourable to the code: once the next cycle has purged
\* the delivered waybills and awaits its list reply.
C18_CacheKeysActive ==
    (pc = "list" /\ ~data.isNone) => DOMAIN pickup_code_cache \subseteq ActiveWaybills

Rank(op) ==
    CASE op = "list" -> 1 [] op = "route" -> 2 [] op = "pickup" -> 3 [] op = "sfbuy" -> 4

CallsOf(op) == {i \in 1..Len(calls) : calls[i].op = op}

\* C19: the requests of a cycle are one list request, then at most one route
\* request, then pickup-code requests (only after a route request), then at most
\* one auxiliary request; the request in flight is the last one issued, every
\* earlier one having been answered.
C19_CallsSequential ==
    /\ \A i, j \in 1..Len(calls) : i < j => Rank(calls[i].op) <= Rank(calls[j].op)
    /\ calls # <<>> => Cardinality(CallsOf("list")) = 1
    /\ Cardinality(CallsOf("route")) <= 1
    /\ Cardinality(CallsOf("sfbuy")) <= 1
    /\ CallsOf("pickup") # {} => CallsOf("route") # {}
    /\ pc # "idle" => calls # <<>> /\ calls[Len(calls)].op = pc

\* C19 witness: a cycle returned after a list, a route, two pickup-code and an
\* auxiliary request.
C19_Witness ==
    /\ JustReturned
    /\ Len(calls) = 5
    /\ [i \in 1..5 |-> calls[i].op] = <<"list", "route", "pickup", "pickup", "sfbuy">>

\* C20: once the list request has succeeded, a route request has been issued
\* exactly when a listed waybill has a status other than "4", there is at most
\* one, and it names exactly the listed waybills with a status other than "4".
C20_RouteRequestForInTransit ==
    listOutcome = "ok" =>
        LET in_transit == {waybills[i].waybillno : i \in
                             {j \in 1..Len(waybills) : waybills[j].waybillStatus # "4"}}
        IN  /\ CallsOf("route") # {} <=> in_transit # {}
            /\ Cardinality(CallsOf("route")) <= 1
            /\ \A i \in CallsOf("route") :
                  /\ {calls[i].arg[k] : k \in 1..Len(calls[i].arg)} = in_transit
                  /\ Len(calls[i].arg) = Cardinality(in_transit)

\* C20 witness: the list named a delivered waybill and one in transit while the
\* cache held a code for the delivered one; the route request names only the
\* waybill in transit.
C20_Witness ==
    /\ pc = "route"
    /\ Len(waybills) = 2
    /\ waybills[1].waybillStatus = "4"
    /\ waybills[2].waybillStatus # "4"
    /\ waybills[1].waybillno \in DOMAIN pickup_code_cache
    /\ calls[2] = Call("route", <<waybills[2].waybillno>>)

\* C21: for every value of the success flag in a status-200 reply, member
\* verification fails (the step shows the form again) exactly when the check of
\* the list, route and pickup-code calls treats the reply as an API failure.
C21_SameFlagClassification ==
    (last_submit.step \in {"user", "init"} /\ ReplyIs200(last_submit.reply))
        => (flow_result.type = "form" <=> ApiFailed(last_submit.reply))

\* A step that changes what consumers read ends a cycle by returning, and sets
\* the snapshot to the waybills of that cycle; a step that raises changes neither
\* the snapshot nor the summary.
VisibleStep ==
    /\ (data' # data \/ sfbuy_data' # sfbuy_data) =>
          /\ pc # "idle"
          /\ pc' = "idle"
          /\ result' = "returned"
          /\ data' = Snapshot(waybills')
    /\ (pc # "idle" /\ result' = "raised") =>
          /\ data' = data
          /\ sfbuy_data' = sfbuy_data

\* C22: the summary and the snapshot of a cycle become visible in the same
\* step, the one in which the cycle returns; a cycle that raises changes neither.
C22_ResultsVisibleAtomically == [][VisibleStep]_vars

\* C22 witness: after a cycle that made a snapshot and a summary visible, a
\* later cycle raised and both are still the ones consumers read.
C22_Witness ==
    /\ pc = "idle"
    /\ result = "raised"
    /\ ~sfbuy_data.isNone
    /\ DOMAIN sfbuy_data.fields # {}
    /\ data.dataList # <<>>

\* The requests of the cycle: one list request, at most one route request and
\* one auxiliary request, at most one pickup-code request for a waybill, and only
\* for a waybill of the route request; no request is issued twice.
CallsBounded ==
    /\ Cardinality(CallsOf("list")) <= 1
    /\ Cardinality(CallsOf("route")) <= 1
    /\ Cardinality(CallsOf("sfbuy")) <= 1
    /\ \A i, j \in 1..Len(calls) : i # j => calls[i] # calls[j]
    /\ \A i \in CallsOf("pickup") :
          \E j \in CallsOf("route") :
              calls[i].arg[1] \in {calls[j].arg[k] : k \in 1..Len(calls[j].arg)}

\* How many more answers the running cycle can wait for, at most: the list
\* reply, the route reply, one pickup-code reply for each entry of the route
\* response not yet completed, the auxiliary reply.
AwaitsLeft ==
    CASE pc = "idle" -> 0
      [] pc = "sfbuy" -> 1
      [] pc = "pickup" -> 1 + Len(obj)
      [] pc = "route" -> 2 + Len(calls[Len(calls)].arg)
      [] pc = "list" -> 3 + NumWaybills

\* The answer to the call in flight brings the cycle strictly closer to its end,
\* and the cycle ends returned or raised.
AnswerStep ==
    pc # "idle" =>
        /\ AwaitsLeft' < AwaitsLeft
        /\ pc' = "idle" => result' \in {"returned", "raised"}

\* C23: every answer to an HTTP call leaves the running cycle with strictly
\* fewer awaits ahead, so a cycle whose calls are all answered ends, and it ends
\* returned or raised; at no point has it issued more than the bounded requests
\* above.
C23_CycleTerminates ==
    /\ [][AnswerStep]_vars
    /\ []CallsBounded
    /\ [](pc = "idle" => result \in {"none", "returned", "raised"})

\* C23 witness: a cycle returned after a pickup-code request failed and another
\* succeeded, each issued once.
C23_Witness ==
    /\ JustReturned
    /\ Cardinality(CallsOf("pickup")) = 2
    /\ \E w \in WaybillNo : fetched[w] = "failed"
    /\ \E w \in WaybillNo : fetched[w] = "code"

\* C24: the timeinterval header of the verification request is the time
\* interval its syttoken was signed with: signing the request's body with the
\* header's values gives the token the request carries.
C24_HeaderTimeIsSignedTime ==
    last_submit.step \in {"user", "init"} =>
        LET h == last_submit.request.headers
        IN  h.syttoken =
                generate_syttoken(last_submit.request.body, <<h.deviceid>>,
                                  <<h.clientversion>>, h.timeinterval,
                                  <<h.regioncode>>, <<h.languagecode>>, <<h.jsbundle>>)

\* The answer to a pickup-code request that failed or brought no code leaves the
\* cache as it was and the entry without a code; and an entry with latest event
\* "125" whose waybill has no cache entry gets a pickup-code request.
LookupStep ==
    /\ pc = "pickup" =>
          LET w == Head(obj).waybillNo
          IN  fetched'[w] \in {"failed", "nocode"} =>
                  /\ pickup_code_cache' = pickup_code_cache
                  /\ w \in DOMAIN routes' => routes'[w].pickupCode = None
    /\ \A w \in WaybillNo :
          (/\ w \notin DOMAIN pickup_code_cache
           /\ w \notin DOMAIN routes
           /\ w \in DOMAIN routes'
           /\ routes'[w].routes # <<>>
           /\ routes'[w].routes[1].opCode = "125")
              => \E i \in 1..Len(calls') : calls'[i] = Call("pickup", <<w>>)

\* C25: a pickup-code lookup that fails or succeeds without a code leaves the
\* cache unchanged and the waybill without a code in the snapshot, and any cycle
\* that finds the latest event "125" for a waybill without a cache entry issues
\* a pickup-code request for it.
C25_FailedLookupNotCached ==
    /\ [][LookupStep]_vars
    /\ [](JustReturned =>
            \A wb \in SnapshotWaybills :
                fetched[wb.waybillno] \in {"failed", "nocode"} =>
                    /\ wb.pickupCode = Absent
                    /\ wb.waybillno \notin DOMAIN pickup_code_cache)

\* C25 witness: the previous cycle left the waybill at "125" without a code, and
\* this cycle has a new pickup-code request in flight for it.
C25_Witness ==
    /\ pc = "pickup"
    /\ \E wb \in SnapshotWaybills :
          /\ wb.waybillno = Head(obj).waybillNo
          /\ LatestIs125(wb)
          /\ wb.pickupCode = Absent
          /\ PickupCallsFor(wb.waybillno) # {}

\* A cache entry keeps its code, and goes only in the purge at the start of a
\* cycle, when the snapshot lists its waybill as delivered.
CacheEntryStep ==
    \A w \in DOMAIN pickup_code_cache :
        IF w \in DOMAIN pickup_code_cache'
        THEN pickup_code_cache'[w] = pickup_code_cache[w]
        ELSE /\ pc = "idle"
             /\ \E wb \in SnapshotWaybills :
                   wb.waybillno = w /\ wb.waybillStatus = "4"

\* C26: once a code is cached for a waybill, every returned snapshot that has
\* route data for it with latest event "125" carries that code, a cache hit
\* issuing no pickup-code request; the entry keeps its code and is removed only
\* once the waybill has been seen delivered.
C26_CachedCodeCarriedUntilDelivered ==
    /\ [](JustReturned =>
            \A wb \in SnapshotWaybills :
                (LatestIs125(wb) /\ wb.waybillno \in DOMAIN pickup_code_cache) =>
                    /\ wb.pickupCode = pickup_code_cache[wb.waybillno]
                    /\ fetched[wb.waybillno] \in {"code", "hit"}
                    /\ fetched[wb.waybillno] = "hit" => PickupCallsFor(wb.waybillno) = {})
    /\ [][CacheEntryStep]_vars

\* C26 witness: a cycle that issued no pickup-code request at all returned a
\* snapshot carrying the code cached by an earlier cycle.
C26_Witness ==
    /\ JustReturned
    /\ CallsOf("pickup") = {}
    /\ \E wb \in SnapshotWaybills :
          /\ LatestIs125(wb)
          /\ wb.waybillno \in DOMAIN pickup_code_cache
          /\ wb.pickupCode = pickup_code_cache[wb.waybillno]

\* The two steps of a cycle whose list request fails.
FailedListCycleStep ==
    /\ (pc = "idle" /\ pc' = "list") =>
          /\ pickup_code_cache' =
                [w \in DOMAIN pickup_code_cache \
                        {wb.waybillno : wb \in {x \in SnapshotWaybills :
                                                   x.waybillStatus = "4"}}
                    |-> pickup_code_cache[w]]
          /\ UNCHANGED <<data, sfbuy_data>>
    /\ (pc = "list" /\ listOutcome' = "failed") =>
          UNCHANGED <<data, sfbuy_data, pickup_code_cache>>

\* C27: a cycle whose list request fails only removes, at its start, the cache
\* entries of the waybills the snapshot lists as delivered: it adds no entry,
\* keeps every other entry, and leaves the snapshot and the summary unchanged.
C27_FailedListCycleFrame == [][FailedListCycleStep]_vars

\* C27 witness: a cycle raised; the cache still holds the entry of a waybill in
\* transit and the summary of an earlier cycle is still there.
C27_Witness ==
    /\ pc = "idle"
    /\ result = "raised"
    /\ ~sfbuy_data.isNone
    /\ \E wb \in SnapshotWaybills :
          /\ wb.waybillStatus # "4"
          /\ wb.waybillno \in DOMAIN pickup_code_cache

\* C28: with a ticket configured, after a returned cycle whose auxiliary fetch
\* failed the summary is None and the four counters are None; after one whose
\* fetch brought a non-empty summary each counter is its named field, 0 when the
\* field is missing.
C28_SummaryIsThisCyclesFetch ==
    (JustReturned /\ HasTicket) =>
        /\ sfbuyOutcome = "failed" =>
              /\ sfbuy_data.isNone
              /\ \A sensor \in SFBUY_SENSORS :
                    sfbuy_native_value(sfbuy_data, sensor).isNone
        /\ (sfbuyOutcome = "ok" /\ ~sfbuy_data.isNone /\ DOMAIN sfbuy_data.fields # {}) =>
              \A sensor \in SFBUY_SENSORS :
                  LET v == sfbuy_native_value(sfbuy_data, sensor)
                  IN  /\ ~v.isNone
                      /\ v.value = IF SFBuyKey[sensor] \in DOMAIN sfbuy_data.fields
                                    THEN sfbuy_data.fields[SFBuyKey[sensor]] ELSE 0

\* C28 witness: the fetch brought a summary with one of the four fields: that
\* counter shows it, the other three show 0.
C28_Witness ==
    /\ JustReturned
    /\ HasTicket
    /\ sfbuyOutcome = "ok"
    /\ sfbuy_data = Summary({"awaitForecastCount"}, 2)
    /\ sfbuy_native_value(sfbuy_data, "sfbuy_forecast").value = 2
    /\ sfbuy_native_value(sfbuy_data, "sfbuy_pay") = [isNone |-> FALSE, value |-> 0]

\* A step while an entry is stored.
OptionsStep ==
    ~entry_data.isNone =>
        /\ entry_data' # entry_data =>
              /\ last_submit'.step = "init"
              /\ verify_sf_express(last_submit'.reply).exc = "none"
              /\ flow_result'.type = "create_entry"
              /\ DOMAIN entry_data'.d = FormKeys \cup {"languagecode"}
              /\ \A k \in FormKeys : entry_data'.d[k] = last_submit'.user_input[k]
        /\ (/\ last_submit'.step = "init"
            /\ verify_sf_express(last_submit'.reply).exc # "none") =>
              /\ entry_data' = entry_data
              /\ flow_result'.type = "form"
              /\ flow_result'.step_id = "init"
              /\ "base" \in DOMAIN flow_result'.errors

\* C29: in the options flow the stored entry data changes only on a submission
\* whose verification did not fail, to the submitted values under the keys the
\* setup flow writes; a submission whose verification fails leaves the entry data
\* unchanged and shows the form again with an error.
C29_OptionsUpdateFrame == [][OptionsStep]_vars

\* C29 witness: an options submission failed to connect; the form is shown with
\* the error and the entry is still stored.
C29_Witness ==
    /\ last_submit.step = "init"
    /\ flow_result = ShowForm("init", [base |-> "cannot_connect"])
    /\ ~entry_data.isNone
    /\ entry_data.d[CONF_PHONE_NUMBER] # last_submit.user_input[CONF_PHONE_NUMBER]

====
